---- MODULE Spec2Model ----
(***************************************************************************)
(* A model of facette/logger: the multi-backend Logger of logger.go with   *)
(* the file/console backend of file.go.                                    *)
(*                                                                         *)
(* The main thread runs NewLogger (logger.go:42-74), stepping through      *)
(* newFileBackend (file.go:31-74), and Close; Context is called at any     *)
(* time; caller threads run the leveled methods.  Logger.write             *)
(* (logger.go:122-136) starts one goroutine per backend, each running      *)
(* fileBackend.Write (file.go:80-86).                                      *)
(*                                                                         *)
(* The two earlier versions of the package are modelled beside it: the     *)
(* single-output Logger of unnamed/part_000 (NewLogger(logPath, level),    *)
(* Context, print) and the package-global variant of unnamed/part_001      *)
(* (Init, printLog).                                                       *)
(***************************************************************************)
EXTENDS Integers, Sequences, FiniteSets, TLC

\* ------------------------------------------------------------------ bounds
NumCallers == 2      \* caller threads
MaxCalls == 3        \* leveled calls made over the run
MaxLoggers == 2      \* Logger objects (constructed or derived by Context)
MaxBackends == 2     \* backend objects constructed over the run
MaxConfigs == 2      \* configurations handed to one NewLogger (wide inputs)
MaxSingles == 2      \* part_000: Logger objects (constructed or derived)
MaxPrints == 2       \* part_000, part_001: leveled calls made over the run
MaxHandles == 2      \* part_000, part_001: files opened over the run

\* -------------------------------------------------------- level table
LevelError == 1
LevelWarning == 2
LevelNotice == 3
LevelInfo == 4
LevelDebug == 5

Levels == {LevelError, LevelWarning, LevelNotice, LevelInfo, LevelDebug}

LevelNames == {"error", "warning", "notice", "info", "debug"}

\* levelMap of logger.go:23-29
levelMap ==
    [n \in LevelNames |->
        CASE n = "error" -> LevelError
          [] n = "warning" -> LevelWarning
          [] n = "notice" -> LevelNotice
          [] n = "info" -> LevelInfo
          [] n = "debug" -> LevelDebug]

\* The threshold a configuration's level name stands for; 0 when the name
\* is not in levelMap (a Go map lookup of a missing key gives 0).
Threshold(name) == IF name \in LevelNames THEN levelMap[name] ELSE 0

\* ------------------------------------------------------------ inputs
FileConfig(path, level) == [type |-> "file", path |-> path, level |-> level]
SyslogConfig(level) == [type |-> "syslog", path |-> "", level |-> level]
OtherConfig == [type |-> "other", path |-> "", level |-> ""]

\* Configurations of the concurrent specification: a console backend and a
\* backend on a real path, both at "warning".
Configs == {FileConfig("-", "warning"), FileConfig("a", "warning")}

\* Configurations of the construction specification: every level name, two
\* names that are no level, both spellings of the console path.
WideConfigs ==
    {FileConfig(p, n) : p \in {"-", "a"}, n \in LevelNames \cup {"verbose"}}
    \cup {FileConfig("", "info"), FileConfig("a", "INFO")}
    \cup {SyslogConfig("info"), SyslogConfig("verbose"), OtherConfig}

Contexts == {"req"}

Callers == 1..NumCallers

SeqsUpTo(S, n) == UNION {[1..k -> S] : k \in 0..n}

\* ------------------------------------------------------------- state
VARIABLES
    loggers,     \* the Logger objects published so far: backends, context, mutex, wg
    backends,    \* the backend objects constructed so far, with their log.Logger
    openFiles,   \* the open handles; handle 0 is os.Stderr
    out,         \* what each output target holds: a sequence of lines
    fileLabels,  \* the package variable fileLabels: level -> label ("" = no entry)
    main,        \* the main thread: the NewLogger or Close invocation it is in
    lastNew,     \* what the last NewLogger invocation returned
    callers,     \* each caller thread: the leveled call it is in
    gor,         \* the goroutines of logger.go:129 that have not ended
    calls,       \* the leveled calls made so far: call, Logger and level
    crashed,     \* the runtime stopped the process (fatal error)
    closed,      \* the Loggers Close was called on
    single,      \* part_000: the single-output Logger objects: level, context, out
    singleLabels,\* part_000: the package variable levelLabels
    logger,      \* part_001: the package variable logger (NilLogger or its output)
    logLevel,    \* part_001: the package variable logLevel
    levelSuffix, \* part_001: the package variable levelSuffix
    levelLabels, \* part_001: the package variable levelLabels
    prints,      \* part_000, part_001: the leveled calls made so far
    lines,       \* part_000, part_001: the lines written, in order, with their handle
    nhandles     \* part_000, part_001: the files opened so far

\* The state of the single-output variant (part_000) and of the
\* package-global variant (part_001).
older ==
    <<single, singleLabels, logger, logLevel, levelSuffix, levelLabels, prints,
      lines, nhandles>>

\* The state of the multi-backend Logger, the open handles and the crash
\* flag aside.
multi ==
    <<loggers, backends, out, fileLabels, main, lastNew, callers, gor, calls,
      closed>>

vars ==
    <<loggers, backends, openFiles, out, fileLabels, main, lastNew, callers,
      gor, calls, crashed, closed, older>>

Stderr == 0

\* part_001:24: the zero value of the package variable logger.
NilLogger == -1

Targets == {"-", "a", "syslog"}

\* newFileBackend's test of file.go:38, negated: the path means the console.
UseConsole(path) == path = "" \/ path = "-"

\* The target a configuration writes to.
TargetOf(config) ==
    IF config.type = "syslog" THEN "syslog"
    ELSE IF UseConsole(config.path) THEN "-" ELSE config.path

MainIdle ==
    [pc |-> "idle", configs |-> <<>>, i |-> 0, bks |-> <<>>,
     output |-> Stderr, useColors |-> FALSE, logger |-> 0]

CallerIdle == [pc |-> "idle", logger |-> 0, level |-> 0, n |-> 0]

Init ==
    /\ loggers = <<>>
    /\ backends = <<>>
    /\ openFiles = {Stderr}
    /\ out = [t \in Targets |-> <<>>]
    /\ fileLabels = [l \in Levels |-> ""]
    /\ main = MainIdle
    /\ lastNew = [called |-> FALSE, logger |-> 0, err |-> "nil"]
    /\ callers = [c \in Callers |-> CallerIdle]
    /\ gor = {}
    /\ calls = {}
    /\ crashed = FALSE
    /\ closed = {}
    /\ single = <<>>
    /\ singleLabels = "nil"
    /\ logger = NilLogger
    /\ logLevel = 0
    /\ levelSuffix = ""
    /\ levelLabels = "nil"
    /\ prints = {}
    /\ lines = <<>>
    /\ nhandles = 0

\* ------------------------------------------------------- NewLogger
\* logger.go:44-47: a NewLogger invocation starts with an empty backend list.
NewLogger(cfgs) ==
    /\ ~crashed
    /\ main.pc = "idle"
    /\ Len(loggers) < MaxLoggers
    /\ Len(backends) + Len(cfgs) <= MaxBackends
    /\ main' = [MainIdle EXCEPT !.pc = "loop", !.configs = cfgs, !.i = 1]
    /\ UNCHANGED <<loggers, backends, openFiles, out, fileLabels, lastNew,
                   callers, gor, calls, crashed, closed, older>>

\* A NewLogger that passes over a configuration whose backend cannot be
\* made, and goes on with the next one.
ReturnError_Skip(err) ==
    /\ main' = [main EXCEPT !.pc = "loop", !.i = @ + 1]
    /\ UNCHANGED <<lastNew, loggers>>

\* logger.go:66-68: a failed backend construction ends NewLogger with
\* (nil, err); nothing built so far is published.
ReturnError(err) ==
    /\ main' = MainIdle
    /\ lastNew' = [called |-> TRUE, logger |-> 0, err |-> err]
    /\ UNCHANGED loggers

\* logger.go:70: the backend joins the list and the loop goes on.
AppendBackend(b) ==
    /\ main' = [main EXCEPT !.pc = "loop", !.i = @ + 1, !.bks = Append(@, b)]
    /\ UNCHANGED <<lastNew, loggers>>

Config == main.configs[main.i]

InLoop == main.pc = "loop" /\ main.i <= Len(main.configs)

\* logger.go:56-57 with file.go:38-59: the case FileConfig.  A real path is
\* opened (MkdirAll or OpenFile may fail); "" and "-" take os.Stderr with
\* colors.  Then fileLabels is set to a fresh empty map.  config.Level is
\* not read.
NewFileBackendOpen ==
    /\ ~crashed /\ InLoop /\ Config.type = "file"
    /\ IF UseConsole(Config.path)
       THEN /\ main' = [main EXCEPT !.pc = "labels", !.output = Stderr,
                                    !.useColors = TRUE]
            /\ fileLabels' = [l \in Levels |-> ""]
            /\ UNCHANGED <<openFiles, lastNew, loggers>>
       ELSE \/ /\ \E err \in {"mkdir", "failed to open logging file"} :
                      ReturnError(err)
               /\ UNCHANGED <<openFiles, fileLabels>>
            \/ /\ main' = [main EXCEPT !.pc = "labels",
                                       !.output = Len(backends) + 1,
                                       !.useColors = FALSE]
               /\ openFiles' = openFiles \cup {Len(backends) + 1}
               /\ fileLabels' = [l \in Levels |-> ""]
               /\ UNCHANGED <<lastNew, loggers>>
    /\ UNCHANGED <<backends, out, callers, gor, calls, crashed, closed,
                   older>>

\* file.go:62-66: the label of one level.
LabelFor(useColors) == IF useColors THEN "color" ELSE "plain"

\* file.go:61-67: the range over levelMap has given every level its label.
\* While the main thread stands before this step it is inside the loop and
\* the map holds the labels of some of the levels (LabelsBeingWritten).
NewFileBackendLabels ==
    /\ ~crashed /\ main.pc = "labels"
    /\ fileLabels' = [l \in Levels |-> LabelFor(main.useColors)]
    /\ main' = [main EXCEPT !.pc = "labelled"]
    /\ UNCHANGED <<loggers, backends, openFiles, out, lastNew, callers, gor,
                   calls, crashed, closed, older>>

\* file.go:69-73: the backend object, with the configuration it was made
\* from.
NewBackend(kind, output, config) ==
    [kind |-> kind, output |-> output, config |-> config]

\* file.go:69-73 and logger.go:70: the loop over levelMap is over, the
\* backend is returned and appended.
NewFileBackendReturn ==
    /\ ~crashed /\ main.pc = "labelled"
    /\ backends' = Append(backends, NewBackend("file", main.output, Config))
    /\ AppendBackend(Len(backends) + 1)
    /\ UNCHANGED <<openFiles, out, fileLabels, callers, gor, calls, crashed,
                   closed, older>>

\* newSyslogBackend: the level name is looked up in the level table, then
\* the connection to the system log is made.
NewSyslogBackend(config) ==
    IF config.level \notin LevelNames
    THEN {"invalid logging level"}
    ELSE {"nil", "syslog unavailable"}

\* logger.go:59-60: the case SyslogConfig.
NewLoggerSyslog ==
    /\ ~crashed /\ InLoop /\ Config.type = "syslog"
    /\ \E err \in NewSyslogBackend(Config) :
        IF err = "nil"
        THEN /\ backends' = Append(backends,
                                    NewBackend("syslog", Len(backends) + 1, Config))
             /\ openFiles' = openFiles \cup {Len(backends) + 1}
             /\ AppendBackend(Len(backends) + 1)
        ELSE /\ ReturnError(err)
             /\ UNCHANGED <<backends, openFiles>>
    /\ UNCHANGED <<out, fileLabels, callers, gor, calls, crashed, closed,
                   older>>

\* logger.go:62-68: any other configuration type.
NewLoggerDefault ==
    /\ ~crashed /\ InLoop /\ Config.type \notin {"file", "syslog"}
    /\ ReturnError("unsupported backend")
    /\ UNCHANGED <<backends, openFiles, out, fileLabels, callers, gor,
                   calls, crashed, closed, older>>

\* logger.go:44-47.  from and asked record how the Logger came to be: by
\* NewLogger (from = 0) or by Context(asked) on the Logger from.
NewLogger_struct(bks) ==
    [backends |-> bks, context |-> "", mu |-> 0, wg |-> 0, from |-> 0, asked |-> ""]

\* logger.go:73: every configuration gave a backend; the Logger is returned.
NewLoggerReturn ==
    /\ ~crashed /\ main.pc = "loop" /\ main.i > Len(main.configs)
    /\ loggers' = Append(loggers, NewLogger_struct(main.bks))
    /\ lastNew' = [called |-> TRUE, logger |-> Len(loggers) + 1, err |-> "nil"]
    /\ main' = MainIdle
    /\ UNCHANGED <<backends, openFiles, out, fileLabels, callers, gor,
                   calls, crashed, closed, older>>

\* The steps of NewLogger once it was invoked.
NewLoggerSteps ==
    \/ NewFileBackendOpen
    \/ NewFileBackendLabels
    \/ NewFileBackendReturn
    \/ NewLoggerSyslog
    \/ NewLoggerDefault
    \/ NewLoggerReturn

\* --------------------------------------------------------- Context
\* logger.go:77-83: a new Logger with the same backend list, the given
\* context, and a mutex and a WaitGroup of its own.
Context_struct(l, context) ==
    [backends |-> loggers[l].backends, context |-> context, mu |-> 0, wg |-> 0,
     from |-> l, asked |-> context]

\* A Context that sets the context of its receiver too.
Context_result_Shared(l, context) ==
    Append([loggers EXCEPT ![l].context = context], Context_struct(l, context))

\* logger.go:77-83: the Loggers after l.Context(context): those there were,
\* untouched, and the new one.
Context_result(l, context) == Append(loggers, Context_struct(l, context))

Context(l, context) ==
    /\ ~crashed
    /\ l \in 1..Len(loggers)
    /\ Len(loggers) + (IF main.pc \in {"loop", "labels", "labelled"} THEN 1 ELSE 0) < MaxLoggers
    /\ loggers' = Context_result(l, context)
    /\ UNCHANGED <<backends, openFiles, out, fileLabels, main, lastNew,
                   callers, gor, calls, crashed, closed, older>>

\* ------------------------------------------------ the leveled methods
RECURSIVE CallsUpTo(_)
CallsUpTo(c) == IF c = 0 THEN 0 ELSE callers[c].n + CallsUpTo(c - 1)

\* The leveled calls made so far, over all callers.
CallsMade == CallsUpTo(NumCallers)

\* logger.go:86-113: Error, Warning, Notice, Info and Debug call write with
\* their level; the caller then stands at l.Lock().
Leveled(c, l, level) ==
    /\ ~crashed
    /\ callers[c].pc = "idle"
    /\ CallsMade < MaxCalls
    /\ IF c = 1 THEN TRUE ELSE callers[c - 1].n > 0   \* callers start in order
    /\ l \in 1..Len(loggers)
    /\ callers' = [callers EXCEPT ![c] =
                      [pc |-> "lock", logger |-> l, level |-> level, n |-> @.n + 1]]
    /\ calls' = calls \cup {[call |-> <<c, callers[c].n + 1>>, l |-> l, level |-> level]}
    /\ UNCHANGED <<loggers, backends, openFiles, out, fileLabels, main,
                   lastNew, gor, crashed, closed, older>>

Error(c, l) == Leveled(c, l, LevelError)
Warning(c, l) == Leveled(c, l, LevelWarning)
Notice(c, l) == Leveled(c, l, LevelNotice)
Info(c, l) == Leveled(c, l, LevelInfo)
Debug(c, l) == Leveled(c, l, LevelDebug)

\* The call a caller is in.
CallOf(c) == <<c, callers[c].n>>

\* A Lock that never makes a caller wait.
CanLock_Free(l) == TRUE

\* logger.go:123: l.Lock() goes through when nobody holds the mutex.
CanLock(l) == loggers[l].mu = 0

\* An Add that counts one write more than there are backends.
WgAdd_Extra(l) == loggers[l].wg + Len(loggers[l].backends) + 1

\* logger.go:126: l.wg.Add(len(l.backends)).
WgAdd(l) == loggers[l].wg + Len(loggers[l].backends)

\* logger.go:128-133: the goroutines write starts, one per backend, each
\* holding the Logger, the level and its backend.  label is the label the
\* goroutine has read; raced records that the read raced with a map write.
Goroutines(c) ==
    LET l == callers[c].logger IN
        {[call |-> CallOf(c), l |-> l, level |-> callers[c].level,
          b |-> loggers[l].backends[k], pc |-> "start", label |-> "",
          raced |-> FALSE] :
            k \in 1..Len(loggers[l].backends)}

\* logger.go:123-133: the lock is taken, the WaitGroup counts the
\* backends, the goroutines are started.
WriteLock(c) ==
    /\ ~crashed
    /\ callers[c].pc = "lock"
    /\ CanLock(callers[c].logger)
    /\ loggers' = [loggers EXCEPT ![callers[c].logger].mu = c,
                                  ![callers[c].logger].wg = WgAdd(callers[c].logger)]
    /\ gor' = gor \cup Goroutines(c)
    /\ callers' = [callers EXCEPT ![c].pc = "wait"]
    /\ UNCHANGED <<backends, openFiles, out, fileLabels, main, lastNew,
                   calls, crashed, closed, older>>

\* A write that does not wait for its goroutines.
WaitOver_NoWait(l) == TRUE

\* logger.go:135: l.wg.Wait() returns when the counter is zero.
WaitOver(l) == loggers[l].wg = 0

\* logger.go:135 and the deferred Unlock of logger.go:124: the call returns.
WriteReturn(c) ==
    /\ ~crashed
    /\ callers[c].pc = "wait"
    /\ WaitOver(callers[c].logger)
    /\ loggers' = [loggers EXCEPT ![callers[c].logger].mu = 0]
    /\ callers' = [callers EXCEPT ![c] = [CallerIdle EXCEPT !.n = callers[c].n]]
    /\ UNCHANGED <<backends, openFiles, out, fileLabels, main, lastNew, gor,
                   calls, crashed, closed, older>>

\* ------------------------------------------------ fileBackend.Write
\* Whether the main thread is inside the loop of file.go:61-67, writing the
\* map that fileLabels names: a read of fileLabels then races with the write.
LabelsBeingWritten == main.pc = "labels"

\* file.go:82,84: the argument fileLabels[level], as a set of the values the
\* read can give.  Outside the loop of newFileBackend it is the entry of
\* the map; inside it the entry is there or not yet.
ReadLabel(level) ==
    IF LabelsBeingWritten
    THEN {"", LabelFor(main.useColors)}
    ELSE {fileLabels[level]}

\* file.go:81-85: the arguments of Printf are evaluated; the label is read
\* from the package variable.  A read that races with the map write of
\* newFileBackend either gives a value or ends the process ("fatal error:
\* concurrent map read and map write").
WriteFormat(g) ==
    /\ ~crashed
    /\ g.pc = "start"
    /\ \/ /\ \E label \in ReadLabel(g.level) :
                gor' = (gor \ {g}) \cup
                          {[g EXCEPT !.pc = "fmt", !.label = label,
                                     !.raced = LabelsBeingWritten]}
          /\ UNCHANGED crashed
       \/ /\ LabelsBeingWritten
          /\ crashed' = TRUE
          /\ UNCHANGED gor
    /\ UNCHANGED <<loggers, backends, openFiles, out, fileLabels, main,
                   lastNew, callers, calls, closed, older>>

\* file.go:81-85: the line of a message: label, context (when not empty)
\* and text.  b is the backend that wrote it, raced whether its label was
\* read in a race.
Line(b, call, level, label, context, raced) ==
    [b |-> b, call |-> call, level |-> level, label |-> label,
     context |-> IF context # "" THEN context ELSE "", raced |-> raced]

\* How the Write on a backend's output ends: on a closed handle it fails
\* (os.ErrClosed).
WriteResult(b) == IF backends[b].output \in openFiles THEN "ok" ELSE "failed"

\* What the output target holds after a write that ended with res.
Emit(b, line, res) ==
    LET t == TargetOf(backends[b].config) IN
        IF res = "ok" THEN [out EXCEPT ![t] = Append(@, line)] ELSE out

\* A Done that releases the waiter at the first write that ends.
WgDone_First(l) == 0

\* logger.go:131: l.wg.Done().
WgDone(l) == loggers[l].wg - 1

\* file.go:82,84 and logger.go:131: b.writer.Printf hands the line to the
\* output in one Write under the mutex of the log.Logger and drops its
\* error; the goroutine ends with wg.Done().
WriteOutput(g) ==
    /\ ~crashed
    /\ g.pc = "fmt"
    /\ out' = Emit(g.b, Line(g.b, g.call, g.level, g.label, loggers[g.l].context,
                             g.raced), WriteResult(g.b))
    /\ loggers' = [loggers EXCEPT ![g.l].wg = WgDone(g.l)]
    /\ gor' = gor \ {g}
    /\ UNCHANGED <<backends, openFiles, fileLabels, main, lastNew, callers,
                   calls, crashed, closed, older>>

\* ------------------------------------------------------------ Close
\* logger.go:116: Close is entered; it takes no lock.
Close(l) ==
    /\ ~crashed
    /\ main.pc = "idle"
    /\ l \in 1..Len(loggers)
    /\ main' = [MainIdle EXCEPT !.pc = "close", !.logger = l, !.i = 1]
    /\ closed' = closed \cup {l}
    /\ UNCHANGED <<loggers, backends, openFiles, out, fileLabels, lastNew,
                   callers, gor, calls, crashed, older>>

\* A Close that undoes the closing when the handle is closed already.
fileBackend_Close_Toggle(b) ==
    IF backends[b].output \in openFiles
    THEN openFiles \ {backends[b].output}
    ELSE openFiles \cup {backends[b].output}

\* file.go:76-78: b.output.Close(); the error of closing a handle that is
\* closed already is dropped.  The handle of a console backend is os.Stderr.
fileBackend_Close(b) == openFiles \ {backends[b].output}

\* A Close whose loop stops one backend short.
CloseRange_Short(l) == 1..(Len(loggers[l].backends) - 1)

\* logger.go:117: the backends the loop of Close visits.
CloseRange(l) == 1..Len(loggers[l].backends)

\* logger.go:117-119: one iteration of the loop of Close.
CloseBackend ==
    /\ ~crashed
    /\ main.pc = "close"
    /\ main.i \in CloseRange(main.logger)
    /\ openFiles' = fileBackend_Close(loggers[main.logger].backends[main.i])
    /\ main' = [main EXCEPT !.i = @ + 1]
    /\ UNCHANGED <<loggers, backends, out, fileLabels, lastNew, callers,
                   gor, calls, crashed, closed, older>>

\* logger.go:120: the loop is over, Close returns.
CloseReturn ==
    /\ ~crashed
    /\ main.pc = "close"
    /\ main.i \notin CloseRange(main.logger)
    /\ main' = MainIdle
    /\ UNCHANGED <<loggers, backends, openFiles, out, fileLabels, lastNew,
                   callers, gor, calls, crashed, closed, older>>

\* --------------------------------------------------- specification
Next ==
    \/ \E cfgs \in SeqsUpTo(Configs, MaxConfigs) : NewLogger(cfgs)
    \/ NewFileBackendOpen
    \/ NewFileBackendLabels
    \/ NewFileBackendReturn
    \/ NewLoggerReturn
    \/ \E l \in 1..MaxLoggers, context \in Contexts : Context(l, context)
    \/ \E c \in Callers, l \in 1..MaxLoggers :
          \/ Debug(c, l)
    \/ \E c \in Callers :
          \/ WriteLock(c)
          \/ WriteReturn(c)
    \/ \E g \in gor :
          \/ WriteFormat(g)
          \/ WriteOutput(g)
    \/ \E l \in 1..MaxLoggers : Close(l)
    \/ CloseBackend
    \/ CloseReturn

Spec == Init /\ [][Next]_vars

\* ------------------------------------- one caller, every level
NextLevels ==
    \/ \E cfgs \in SeqsUpTo(Configs, MaxConfigs) : NewLogger(cfgs)
    \/ NewFileBackendOpen
    \/ NewFileBackendLabels
    \/ NewFileBackendReturn
    \/ NewLoggerReturn
    \/ \E l \in 1..MaxLoggers :
          \/ Error(1, l)
          \/ Warning(1, l)
          \/ Notice(1, l)
          \/ Info(1, l)
          \/ Debug(1, l)
    \/ WriteLock(1)
    \/ WriteReturn(1)
    \/ \E g \in gor :
          \/ WriteFormat(g)
          \/ WriteOutput(g)

SpecLevels == Init /\ [][NextLevels]_vars

\* ---------------------------------------------- construction alone
NextConstruct ==
    \/ \E cfgs \in SeqsUpTo(WideConfigs, MaxConfigs) : NewLogger(cfgs)
    \/ NewLoggerSteps

SpecConstruct == Init /\ [][NextConstruct]_vars

\* ------------------------------------------------------- liveness
\* The steps of the goroutines of logger.go:129.
BackendWrites == \E g \in gor : WriteFormat(g) \/ WriteOutput(g)

\* Construction, Context and leveled calls, without Close.
NextLive ==
    \/ \E cfgs \in SeqsUpTo(Configs, MaxConfigs) : NewLogger(cfgs)
    \/ NewFileBackendOpen
    \/ NewFileBackendLabels
    \/ NewFileBackendReturn
    \/ NewLoggerReturn
    \/ \E l \in 1..MaxLoggers, context \in Contexts : Context(l, context)
    \/ \E c \in Callers, l \in 1..MaxLoggers : Debug(c, l)
    \/ \E c \in Callers : WriteLock(c)
    \/ \E c \in Callers : WriteReturn(c)
    \/ BackendWrites

\* The scheduler runs every goroutine that can run (weak fairness of the
\* backend writes and of the return from Wait); sync.Mutex hands the lock
\* to a waiter that keeps failing to take it (strong fairness of Lock).
Fairness ==
    /\ WF_vars(BackendWrites)
    /\ \A c \in Callers : WF_vars(WriteReturn(c)) /\ SF_vars(WriteLock(c))

SpecLive == Init /\ [][NextLive]_vars /\ Fairness

\* ------------------------------------ the single-output variants
\* The arguments of NewLogger(logPath, level) and of Init(logPath, level).
LogPaths == {"-", "a"}

LevelArgs == LevelNames \cup {"", "verbose"}

\* part_000:79, part_001:70: os.OpenFile gives a handle that is open.
OpenFile(h) == openFiles \cup {h}

\* A write of a line on a handle: it reaches the output when the handle is
\* open; otherwise the error of the Write is dropped by Printf.
Printf(h, n, level, context) ==
    IF h \in openFiles
    THEN Append(lines, [n |-> n, h |-> h, level |-> level, context |-> context])
    ELSE lines

\* A leveled call is recorded with whether its level is within the level
\* configured, that is not above it (part_000:147, part_001:121).
PrintCall(variant, level, configured) ==
    [n |-> Cardinality(prints) + 1, variant |-> variant, level |-> level,
     admit |-> ~(level > configured)]

\* part_000:56-98: NewLogger(logPath, level) of the single-output variant.
\* The level name is looked up first; a real path is opened, "" and "-"
\* take os.Stderr; the labels are set; the Logger is returned.
SingleNewLogger(logPath, level) ==
    /\ ~crashed
    /\ Len(single) < MaxSingles
    /\ IF level \notin LevelNames
       THEN UNCHANGED <<single, singleLabels, openFiles, nhandles>>
       ELSE IF ~UseConsole(logPath)
       THEN \/ UNCHANGED <<single, singleLabels, openFiles, nhandles>>
            \/ /\ nhandles < MaxHandles
               /\ nhandles' = nhandles + 1
               /\ openFiles' = OpenFile(nhandles + 1)
               /\ singleLabels' = "color"
               /\ single' = Append(single, [level |-> levelMap[level],
                                            context |-> "", out |-> nhandles + 1])
       ELSE /\ singleLabels' = "color"
            /\ single' = Append(single, [level |-> levelMap[level],
                                         context |-> "", out |-> Stderr])
            /\ UNCHANGED <<openFiles, nhandles>>
    /\ UNCHANGED <<multi, crashed, logger, logLevel, levelSuffix, levelLabels,
                   prints, lines>>

\* part_000:106-110: Context copies the Logger and sets the copy's context.
SingleContext(l, context) ==
    /\ ~crashed
    /\ l \in 1..Len(single)
    /\ Len(single) < MaxSingles
    /\ single' = Append(single, [single[l] EXCEPT !.context = context])
    /\ UNCHANGED <<multi, openFiles, crashed, singleLabels, logger, logLevel,
                   levelSuffix, levelLabels, prints, lines, nhandles>>

\* part_000:146-162: print, called by the five leveled methods
\* (part_000:113-135).
print(l, level) ==
    /\ ~crashed
    /\ l \in 1..Len(single)
    /\ Cardinality(prints) < MaxPrints
    /\ prints' = prints \cup {PrintCall("single", level, single[l].level)}
    /\ lines' = IF level > single[l].level
                THEN lines
                ELSE Printf(single[l].out, Cardinality(prints) + 1, level,
                            single[l].context)
    /\ UNCHANGED <<multi, openFiles, crashed, single, singleLabels, logger,
                   logLevel, levelSuffix, levelLabels, nhandles>>

\* part_001:48-50: the default level.
LevelOrDefault(level) == IF level = "" THEN "info" ELSE level

\* part_001:74: the deferred logOut.Close() runs when Init returns.
DeferredClose(files, h) == files \ {h}

\* part_001:40-92: Init(logPath, level) of the package-global variant.
\* logLevel is assigned by the lookup of part_001:52 whether the name is
\* known or not; a failure of MkdirAll or OpenFile returns after that
\* assignment; on success logger and levelLabels are replaced and the
\* deferred Close of part_001:74 runs.
GlobalInit(logPath, level) ==
    /\ ~crashed
    /\ logLevel' = Threshold(LevelOrDefault(level))
    /\ IF LevelOrDefault(level) \notin LevelNames
       THEN UNCHANGED <<logger, levelSuffix, levelLabels, openFiles, nhandles>>
       ELSE IF ~UseConsole(logPath)
       THEN /\ levelSuffix' = ":"
            /\ \/ UNCHANGED <<logger, levelLabels, openFiles, nhandles>>
               \/ /\ nhandles < MaxHandles
                  /\ nhandles' = nhandles + 1
                  /\ logger' = nhandles + 1
                  /\ levelLabels' = "color"
                  /\ openFiles' = DeferredClose(OpenFile(nhandles + 1), nhandles + 1)
       ELSE /\ logger' = Stderr
            /\ levelLabels' = "color"
            /\ UNCHANGED <<levelSuffix, openFiles, nhandles>>
    /\ UNCHANGED <<multi, crashed, single, singleLabels, prints, lines>>

\* part_001:120-126: printLog, called by the five leveled functions
\* (part_001:95-117).  logger.Printf on a nil *log.Logger panics.
printLog(level, context) ==
    /\ ~crashed
    /\ Cardinality(prints) < MaxPrints
    /\ prints' = prints \cup {PrintCall("global", level, logLevel)}
    /\ IF level > logLevel
       THEN UNCHANGED <<lines, crashed>>
       ELSE IF logger = NilLogger
       THEN crashed' = TRUE /\ UNCHANGED lines
       ELSE /\ lines' = Printf(logger, Cardinality(prints) + 1, level, context)
            /\ UNCHANGED crashed
    /\ UNCHANGED <<multi, openFiles, single, singleLabels, logger, logLevel,
                   levelSuffix, levelLabels, nhandles>>

NextSingle ==
    \/ \E logPath \in LogPaths, level \in LevelArgs : SingleNewLogger(logPath, level)
    \/ \E l \in 1..MaxSingles, context \in Contexts : SingleContext(l, context)
    \/ \E l \in 1..MaxSingles, level \in Levels : print(l, level)

NextGlobal ==
    \/ \E logPath \in LogPaths, level \in LevelArgs : GlobalInit(logPath, level)
    \/ \E level \in Levels, context \in Contexts : printLog(level, context)

\* The package-global variant alone.
SpecGlobal == Init /\ [][NextGlobal]_vars

\* The two single-output variants.  They are two versions of the package,
\* so a run is a run of one of them: a variant acts when the other has not.
SingleUntouched == single = <<>> /\ \A p \in prints : p.variant = "global"

GlobalUntouched ==
    /\ logger = NilLogger /\ logLevel = 0 /\ levelSuffix = ""
    /\ \A p \in prints : p.variant = "single"

NextOlder ==
    \/ GlobalUntouched /\ NextSingle
    \/ SingleUntouched /\ NextGlobal

SpecOlder == Init /\ [][NextOlder]_vars

\* ------------------------------------------------------ vocabulary
\* The backends a Logger dispatches to.
BackendsOf(l) == {loggers[l].backends[k] : k \in 1..Len(loggers[l].backends)}

\* The positions of the lines a call left in the output of a backend.
LinesOf(call, b) ==
    LET t == TargetOf(backends[b].config) IN
        {i \in 1..Len(out[t]) : out[t][i].call = call /\ out[t][i].b = b}

\* The call has returned to its caller.
Returned(k) ==
    \/ k.call[2] < callers[k.call[1]].n
    \/ callers[k.call[1]].pc = "idle"

AllReturned == \A c \in Callers : callers[c].pc = "idle"

\* The step in which NewLogger returns.
NewLoggerReturns == main.pc \in {"loop", "labels", "labelled"} /\ main'.pc = "idle"

\* The step in which Close returns.
CloseReturns == main.pc = "close" /\ main'.pc = "idle"

\* Close was called on the Logger or on a Logger with the same backends.
WasClosed(l) == \E m \in closed : BackendsOf(m) \cap BackendsOf(l) # {}

\* The context a Logger was made with.
MadeWith(l) == IF loggers[l].from = 0 THEN "" ELSE loggers[l].asked

\* ----------------------------------------------------------- claims
\* C1: a backend emits a leveled call's message if and only if the level of
\* the call is at most the threshold the backend was configured with.
C1_EmitsIffWithinThreshold ==
    \A k \in calls :
        Returned(k) =>
            \A b \in BackendsOf(k.l) :
                (LinesOf(k.call, b) # {})
                    <=> (k.level <= Threshold(backends[b].config.level))

\* C2: NewLogger returns a Logger only for configurations whose level is one
\* of the five level names; with any other name it fails and no Logger
\* holds a backend made from that configuration.
C2_InvalidLevelFails ==
    \A l \in 1..Len(loggers) :
        \A b \in BackendsOf(l) : backends[b].config.level \in LevelNames

\* C3: NewLogger is fail-fast.  When it returns an error no Logger is
\* published, and an unrecognized configuration type ends it at once with
\* ErrUnsupportedBackend; when it returns a Logger, the Logger holds one
\* backend per configuration, in the order of the configurations.
C3_FailFast ==
    [][/\ NewLoggerReturns =>
            IF lastNew'.err = "nil"
            THEN /\ Len(loggers') = Len(loggers) + 1
                 /\ SubSeq(loggers', 1, Len(loggers)) = loggers
                 /\ lastNew'.logger = Len(loggers')
                 /\ Len(loggers'[Len(loggers')].backends) = Len(main.configs)
                 /\ \A k \in 1..Len(main.configs) :
                        backends'[loggers'[Len(loggers')].backends[k]].config
                            = main.configs[k]
            ELSE /\ loggers' = loggers
                 /\ lastNew'.logger = 0
                 /\ lastNew'.err = "unsupported backend"
                        <=> Config.type \notin {"file", "syslog"}
       /\ (InLoop /\ Config.type \notin {"file", "syslog"} /\ main' # main)
            => NewLoggerReturns /\ lastNew'.err = "unsupported backend"
      ]_vars

\* A NewLogger that built a backend and then met an unrecognized
\* configuration: it returned the error and no Logger.
C3_Witness ==
    /\ lastNew.called /\ lastNew.err = "unsupported backend" /\ lastNew.logger = 0
    /\ main.pc = "idle"
    /\ Len(backends) = 1 /\ loggers = <<>>

\* C4: a leveled call has not returned while one of its backend writes is
\* still to be done: every goroutine that has not ended belongs to the call
\* its caller is waiting in.
C4_ReturnsAfterWrites ==
    \A g \in gor :
        /\ callers[g.call[1]].n = g.call[2]
        /\ callers[g.call[1]].pc = "wait"

\* A call on a Logger with two backends has returned, both lines written.
C4_Witness ==
    \E k \in calls :
        /\ Returned(k)
        /\ Len(loggers[k.l].backends) = 2
        /\ \A b \in BackendsOf(k.l) : LinesOf(k.call, b) # {}

\* C5: under concurrent leveled calls every line of an output is the whole
\* message of one call (its level, its Logger's context, on a backend of its
\* Logger), no call has two lines in a backend's output, and once all calls
\* have returned every call on a Logger that was not closed has its line in
\* the output of every backend of its Logger.
C5_OneLinePerCall ==
    /\ \A t \in Targets : \A i \in 1..Len(out[t]) :
          \E k \in calls :
              /\ k.call = out[t][i].call
              /\ k.level = out[t][i].level
              /\ loggers[k.l].context = out[t][i].context
              /\ out[t][i].b \in BackendsOf(k.l)
              /\ TargetOf(backends[out[t][i].b].config) = t
    /\ \A k \in calls : \A b \in BackendsOf(k.l) : Cardinality(LinesOf(k.call, b)) <= 1
    /\ AllReturned =>
          \A k \in calls : \A b \in BackendsOf(k.l) :
              ~WasClosed(k.l) => Cardinality(LinesOf(k.call, b)) = 1

\* C6: when a caller's call B follows its call A, a line of B in a
\* backend's output has the line of A before it, if A's Logger has that
\* backend.
C6_SameCallerOrder ==
    \A t \in Targets : \A q \in 1..Len(out[t]) :
        \A k \in calls :
            (/\ k.call[1] = out[t][q].call[1]
             /\ k.call[2] < out[t][q].call[2]
             /\ out[t][q].b \in BackendsOf(k.l))
            => \E p \in 1..(q - 1) :
                  out[t][p].call = k.call /\ out[t][p].b = out[t][q].b

\* In one backend's output the line of another caller stands between the
\* lines of two calls of caller 1.
C6_Witness ==
    \E t \in Targets : \E p, r, q \in 1..Len(out[t]) :
        /\ p < r /\ r < q
        /\ out[t][p].call = <<1, 1>> /\ out[t][q].call = <<1, 2>>
        /\ out[t][r].call[1] = 2
        /\ out[t][p].b = out[t][q].b /\ out[t][r].b = out[t][q].b

\* C7: a Logger made by Context carries the context asked for and the
\* backend list of the Logger it was made from; every Logger keeps the
\* context it was made with, and every line carries the context its
\* Logger was made with.
C7_ContextImmutable ==
    /\ \A l \in 1..Len(loggers) :
          /\ loggers[l].context = MadeWith(l)
          /\ loggers[l].from # 0 => loggers[l].backends = loggers[loggers[l].from].backends
    /\ \A t \in Targets : \A i \in 1..Len(out[t]) :
          \E k \in calls : k.call = out[t][i].call /\ out[t][i].context = MadeWith(k.l)

\* A line logged through the original Logger follows, in the same backend's
\* output, a line logged through the Logger Context made from it.
C7_Witness ==
    \E t \in Targets : \E p, q \in 1..Len(out[t]) :
        /\ p < q
        /\ out[t][p].context = "req" /\ out[t][q].context = ""
        /\ out[t][p].b = out[t][q].b

\* C8: while Close runs no line leaves an output, and when Close returns
\* the handle of every backend of the Logger is closed.
C8_CloseKeepsLines ==
    [][/\ main.pc = "close" =>
            \A t \in Targets :
                /\ Len(out[t]) <= Len(out'[t])
                /\ SubSeq(out'[t], 1, Len(out[t])) = out[t]
       /\ CloseReturns =>
            \A b \in BackendsOf(main.logger) : backends[b].output \notin openFiles'
      ]_vars

\* Close has returned on a Logger with a console and a file backend; the
\* file holds a line written before.
C8_Witness ==
    /\ main.pc = "idle"
    /\ \E l \in 1..Len(loggers) :
          /\ Len(loggers[l].backends) = 2
          /\ \A b \in BackendsOf(l) : backends[b].output \notin openFiles
          /\ \E b \in BackendsOf(l) :
                /\ backends[b].output # Stderr
                /\ \E k \in calls : LinesOf(k.call, b) # {}

\* C9: no leveled call fails: the process is never stopped by a call, and a
\* write that failed is not tried again.
C9_CallsNeverFail ==
    /\ ~crashed
    /\ \A k \in calls : \A b \in BackendsOf(k.l) : Cardinality(LinesOf(k.call, b)) <= 1

\* C10: the lines of a backend on a real path carry plain labels, the lines
\* of a console backend color-coded labels (lines whose label was read while
\* newFileBackend was writing the labels are left aside).
C10_LabelByTarget ==
    \A t \in Targets : \A i \in 1..Len(out[t]) :
        ~out[t][i].raced =>
            out[t][i].label = IF t = "-" THEN "color" ELSE "plain"

\* The line a call of the single-output variants left in its output.
Written(p) == \E i \in 1..Len(lines) : lines[i].n = p.n /\ lines[i].level = p.level

\* C11: in the single-output variants (part_000 and part_001) a leveled
\* call's message is written to the output if and only if its level is not
\* above the configured level.
C11_WrittenIffWithinLevel ==
    \A p \in prints : Written(p) <=> p.admit

\* C12: the fan-outs of two calls on the same Logger never overlap: the
\* goroutines of one Logger that have not ended all belong to one call.
C12_FanOutExclusive ==
    \A g1, g2 \in gor : g1.l = g2.l => g1.call = g2.call

\* A call's writes are in progress on a Logger while another caller's call
\* on that Logger waits for the lock.
C12_Witness ==
    \E g \in gor : \E c \in Callers :
        /\ c # g.call[1]
        /\ callers[c].pc = "lock" /\ callers[c].logger = g.l
        /\ Len(loggers[g.l].backends) = 2

\* C13: the fan-outs of calls on Loggers that share their backends (a
\* Logger and one made from it by Context) never overlap, and every shared
\* backend receives the lines of two such calls in the same order.
C13_SharedFanOutExclusive ==
    /\ \A g1, g2 \in gor :
          BackendsOf(g1.l) \cap BackendsOf(g2.l) # {} => g1.call = g2.call
    /\ \A k1, k2 \in calls : \A b1, b2 \in BackendsOf(k1.l) \cap BackendsOf(k2.l) :
          \A p1 \in LinesOf(k1.call, b1), q1 \in LinesOf(k2.call, b1),
             p2 \in LinesOf(k1.call, b2), q2 \in LinesOf(k2.call, b2) :
              (p1 < q1) <=> (p2 < q2)

\* C14: with fair scheduling and backend writes that end (the process is
\* not stopped in one), every caller that waits for the lock gets it and
\* every leveled call returns; the step in which it returns leaves the
\* Logger's mutex free and its WaitGroup counter at zero.
C14_CallsReturn ==
    /\ \A c \in Callers :
          /\ (callers[c].pc = "lock") ~> (callers[c].pc = "wait" \/ crashed)
          /\ (callers[c].pc # "idle") ~> (callers[c].pc = "idle" \/ crashed)
    /\ [][\A c \in Callers :
            (callers[c].pc = "wait" /\ callers'[c].pc = "idle") =>
                /\ loggers'[callers[c].logger].mu = 0
                /\ loggers'[callers[c].logger].wg = 0]_vars

\* Two callers' calls on one Logger with two backends have both returned.
C14_Witness ==
    /\ AllReturned /\ ~crashed
    /\ \E k1, k2 \in calls :
          /\ k1.call[1] # k2.call[1] /\ k1.l = k2.l
          /\ Len(loggers[k1.l].backends) = 2
          /\ \A b \in BackendsOf(k1.l) : LinesOf(k1.call, b) # {} /\ LinesOf(k2.call, b) # {}

\* Every handle of the Logger's backends is closed.
AllClosed(l) == \A b \in BackendsOf(l) : backends[b].output \notin openFiles

\* C15: a Close on a Logger that was closed before, itself or through a
\* Logger sharing its backends, finds every backend closed, and no step of
\* a Close that finds them closed changes a handle or stops the process.
C15_CloseIdempotent ==
    [][/\ (main.pc = "idle" /\ main'.pc = "close" /\ WasClosed(main'.logger))
            => AllClosed(main'.logger)
       /\ (main.pc = "close" /\ AllClosed(main.logger))
            => (openFiles' = openFiles /\ ~crashed')
      ]_vars

\* Close has returned on a Logger and on the Logger Context made from it.
C15_Witness ==
    /\ main.pc = "idle" /\ ~crashed
    /\ \E l, m \in closed :
          /\ loggers[m].from = l
          /\ loggers[l].backends # <<>>
          /\ AllClosed(l)

\* C16: Close leaves the standard-error stream open.
C16_StderrStaysOpen == Stderr \in openFiles

\* The backends built by NewLogger invocations that returned an error: those
\* no Logger holds once NewLogger has returned.
Orphans ==
    {b \in 1..Len(backends) : \A l \in 1..Len(loggers) : b \notin BackendsOf(l)}

\* C17: when NewLogger has returned an error, no file it opened for the
\* configurations before the failing one is still open.
C17_FailureClosesBackends ==
    (main.pc = "idle" /\ lastNew.called /\ lastNew.err # "nil") =>
        \A b \in Orphans :
            (backends[b].kind = "file" /\ backends[b].output # Stderr)
                => backends[b].output \notin openFiles

\* C18: every line a file/console backend emits carries a label: no Write
\* finds the label table empty or partly filled.
C18_LabelsNeverEmpty ==
    /\ \A t \in Targets : \A i \in 1..Len(out[t]) : out[t][i].label # ""
    /\ \A g \in gor : g.pc = "fmt" => g.label # ""

\* C19: in the package-global variant the file a successful Init opened
\* is open once Init has returned, and a later call whose level is within
\* the configured level appends its line to it.
C19_InitFileStaysOpen ==
    /\ (logger # NilLogger /\ logger # Stderr) => logger \in openFiles
    /\ \A p \in prints :
          (p.variant = "global" /\ p.admit /\ ~crashed) => Written(p)

\* C20: in the package-global variant printLog never uses a nil logger:
\* whenever logLevel admits a level the logger is set, and no call panics.
C20_LoggerNeverNil ==
    /\ logLevel >= 1 => logger # NilLogger
    /\ ~crashed

====
